---- MODULE Spec2Model ----
(***************************************************************************)
(* PyMyFlySpy: the map component's polling of /readings, the flight        *)
(* scrubber, the flight data table, the query console and the recorder     *)
(* extension.                                                              *)
(*                                                                         *)
(*   Spec          the dashboard: InteractiveWorldMap with its scrubber    *)
(*   SpecScrubber  the FlightScrubber component under arbitrary props      *)
(*   SpecSort      the polling alone, on responses with tied timestamps    *)
(*   SpecTeardown  the polling with the unmounting of the map              *)
(*   SpecOrder     the polling with its fetches numbered in order of issue *)
(*   SpecDisplay   getTableSections applied to one reading                 *)
(*   SpecQuery     the query console, QueryPage                            *)
(*   SpecExtension the Firefox extension's background script               *)
(***************************************************************************)
EXTENDS Integers, Sequences, FiniteSets

VARIABLES
    lifecycle,        \* "rendered" (effects not yet run), "mounted", "unmounted"
    interval,         \* TRUE while the setInterval timer of the map is set
    inflight,         \* the /readings fetches issued and not yet completed, oldest first
    readings,         \* useState<Reading[]>([])
    currentReading,   \* useState<Reading | null>(null)
    selectedTime,     \* useState(null)
    startTime,        \* props handed to FlightScrubber by the last render
    estimatedEndTime,
    currentTime,
    isDragging,       \* FlightScrubber: useState(false)
    progress,         \* FlightScrubber: useState(0), in whole percent
    scrubberRef,      \* FlightScrubber: TRUE while scrubberRef.current is the track element
    shown,            \* the reading handed to FlightDataDisplay
    windCalls,        \* the argument triples calculateWindComponent was called with
    rows,             \* the rows getTableSections returned
    query,            \* QueryPage: useState(''), as a sequence of characters
    results,          \* QueryPage: useState<any[] | null>(null)
    error,            \* QueryPage: useState<string | null>(null)
    loading,          \* QueryPage: useState(false)
    pending,          \* the POST /query requests issued and not yet completed
    filters,          \* the extension's response filter of each page request
    requests,         \* the requests the extension has issued, oldest first
    logged,           \* what the extension has written with console.error
    last              \* the handler that ran last, with its inputs and what it emitted

vars == <<lifecycle, interval, inflight, readings, currentReading, selectedTime,
          startTime, estimatedEndTime, currentTime, isDragging, progress,
          scrubberRef, shown, windCalls, rows, query, results, error, loading,
          pending, filters, requests, logged, last>>

mapVars == <<lifecycle, interval, inflight, readings, currentReading, selectedTime>>
scrubberVars == <<startTime, estimatedEndTime, currentTime, isDragging, progress,
                  scrubberRef>>
displayVars == <<shown, windCalls, rows>>
queryVars == <<query, results, error, loading, pending>>
extensionVars == <<filters, requests, logged>>

-----------------------------------------------------------------------------
(* Bounds of the model *)

MaxLen == 3         \* readings in one /readings response
MaxInFlight == 2    \* fetches in flight at once
TrackWidth == 2     \* rect.width of the scrubber track, in pixels
TrackLeft == 10     \* rect.left of the scrubber track
MaxQueryLen == 2    \* characters typed into the query box
MaxChunks == 2      \* data events of one response
MaxIssued == 3      \* fetches issued where they are numbered

-----------------------------------------------------------------------------
(* JavaScript values: null/undefined, NaN, numbers and strings *)

Null == [js |-> "null"]
NaN == [js |-> "NaN"]
Num(n) == [js |-> "number", n |-> n]
Str(s) == [js |-> "string", s |-> s]

\* ToBoolean: null, undefined, NaN, 0 and "" are falsy; objects and functions
\* are truthy
Truthy(v) ==
    CASE v.js = "number" -> v.n # 0
      [] v.js = "string" -> v.s # ""
      [] v.js \in {"function", "object"} -> TRUE
      [] OTHER -> FALSE

\* a || b
OrElse(a, b) == IF Truthy(a) THEN a ELSE b

Abs(n) == IF n < 0 THEN -n ELSE n
Min(a, b) == IF a < b THEN a ELSE b
Max(a, b) == IF a > b THEN a ELSE b

\* n / d truncated toward zero, d > 0: the time value a Date keeps of n / d
TruncDiv(n, d) == IF n >= 0 THEN n \div d ELSE -((-n) \div d)

-----------------------------------------------------------------------------
(* Readings *)

Timestamps == {100, 200, 300}

\* estimated_arrival_time strings a response may carry
EtaStrings == {"1970-01-01T00:00:00.350Z"}

\* new Date(s).getTime() of a string
DateParse(s) ==
    CASE s = "1970-01-01T00:00:00.350Z" -> Num(350)
      [] s = "1970-01-01T00:00:00.150Z" -> Num(150)
      [] OTHER -> NaN

\* new Date(v).getTime() of a truthy value: a number is its own time value
DateGetTime(v) == IF v.js = "string" THEN DateParse(v.s) ELSE v

Reading(t, eta) == [timestamp |-> t, estimated_arrival_time |-> eta]

\* The readings a response may hold: the earlier ones without an estimated
\* arrival time, the latest with one
ReadingValues ==
    {Reading(t, Null) : t \in Timestamps \ {300}}
        \cup {Reading(300, Str(s)) : s \in EtaStrings}

\* The bodies GET /readings may answer with: lists of readings in any order
Bodies == UNION {[1..n -> ReadingValues] : n \in 0..MaxLen}

-----------------------------------------------------------------------------
(* fetchReadings: the sort and the state it sets *)

\* Mutant: r is put before the readings of its own timestamp
RECURSIVE InsertBeforeEqual(_, _)
InsertBeforeEqual(sorted, r) ==
    IF sorted = <<>> THEN <<r>>
    ELSE IF r.timestamp - sorted[Len(sorted)].timestamp <= 0
         THEN Append(InsertBeforeEqual(SubSeq(sorted, 1, Len(sorted) - 1), r),
                     sorted[Len(sorted)])
         ELSE Append(sorted, r)

\* r put into a list sorted by timestamp, behind every reading that does not
\* compare greater (the comparator a.timestamp - b.timestamp; the sort is stable)
RECURSIVE InsertByTimestamp(_, _)
InsertByTimestamp(sorted, r) ==
    IF sorted = <<>> THEN <<r>>
    ELSE IF r.timestamp - sorted[Len(sorted)].timestamp < 0
         THEN Append(InsertByTimestamp(SubSeq(sorted, 1, Len(sorted) - 1), r),
                     sorted[Len(sorted)])
         ELSE Append(sorted, r)

\* Mutant: the response is stored as it came, the sort left out
SortLeftOut(data) == data

\* data.sort((a, b) => a.timestamp - b.timestamp)
RECURSIVE SortByTimestamp(_)
SortByTimestamp(data) ==
    IF data = <<>> THEN <<>>
    ELSE InsertByTimestamp(SortByTimestamp(SubSeq(data, 1, Len(data) - 1)),
                           data[Len(data)])

\* What fetchReadings sets once response.json() has resolved to the array data:
\* setReadings(sortedReadings), and setCurrentReading of the last one if any
ApplyReadings(data, cur) ==
    LET sortedReadings == SortByTimestamp(data)
    IN  [readings |-> sortedReadings,
         currentReading |-> IF Len(sortedReadings) > 0
                            THEN sortedReadings[Len(sortedReadings)]
                            ELSE cur]

\* The ways a poll fails: fetch rejects, response.json() rejects, or the body is
\* no array, so that data.sort throws a TypeError
FailureCauses == {"network", "json", "notArray"}

-----------------------------------------------------------------------------
(* onScrubChange of the map *)

\* Mutant: <= for <, so that of two readings equally close the later one wins
RECURSIVE ReduceClosestLastWins(_, _, _, _)
ReduceClosestLastWins(rs, i, prev, t) ==
    IF i > Len(rs) THEN prev
    ELSE ReduceClosestLastWins(rs, i + 1,
                               IF Abs(rs[i].timestamp - t) <= Abs(prev.timestamp - t)
                               THEN rs[i] ELSE prev,
                               t)

\* readings.reduce((prev, curr) => |curr - t| < |prev - t| ? curr : prev)
RECURSIVE ReduceClosest(_, _, _, _)
ReduceClosest(rs, i, prev, t) ==
    IF i > Len(rs) THEN prev
    ELSE ReduceClosest(rs, i + 1,
                       IF Abs(rs[i].timestamp - t) < Abs(prev.timestamp - t)
                       THEN rs[i] ELSE prev,
                       t)

ClosestReading(rs, t) == ReduceClosest(rs, 2, rs[1], t)

\* onScrubChange(newTime): newTime is the time value of the Date handed over.
\* reduce of an empty array without an initial value throws after
\* setSelectedTime has been called.
OnScrubChange(rs, cur, newTime) ==
    [selectedTime |-> Num(newTime),
     currentReading |-> IF Len(rs) > 0 THEN ClosestReading(rs, newTime) ELSE cur,
     threw |-> Len(rs) = 0]

\* The props the map hands to FlightScrubber
CurrentTimeProp(sel, cur) == OrElse(sel, Num(cur.timestamp))

StartTimeProp(rs, cur) ==
    OrElse(IF Len(rs) > 0 THEN Num(rs[1].timestamp) ELSE Null, Num(cur.timestamp))

EstimatedEndTimeProp(cur) ==
    IF Truthy(cur.estimated_arrival_time)
    THEN DateGetTime(cur.estimated_arrival_time)
    ELSE Num(cur.timestamp)

-----------------------------------------------------------------------------
(* FlightScrubber *)

\* startTime ? new Date(startTime).getTime() : null
ValidTime(v) == IF Truthy(v) THEN DateGetTime(v) ELSE Null

\* validStartTime && validEndTime ? validEndTime - validStartTime : 0
TotalDuration(vs, ve) == IF Truthy(vs) /\ Truthy(ve) THEN ve.n - vs.n ELSE 0

\* The component returns the track unless
\* !validStartTime || !validEndTime || totalDuration <= 0
Renders(vs, ve, td) == ~(~Truthy(vs) \/ ~Truthy(ve) \/ td <= 0)

\* Mutant: the offset of the pointer is taken as it is
OffsetOnTrack(clientX) == clientX - TrackLeft

\* Math.min(Math.max(0, clientX - rect.left), rect.width)
ClampToTrack(clientX) == Min(Max(0, clientX - TrackLeft), TrackWidth)

\* Mutant: the start time is not added
ScrubTimeFromZero(vs, td, x) == TruncDiv(td * x, TrackWidth)

\* The time value of new Date(validStartTime + totalDuration * (x / rect.width))
ScrubTime(vs, td, x) == TruncDiv(vs.n * TrackWidth + td * x, TrackWidth)

\* Mutant: the guard does not look at scrubberRef.current
HandleScrubWithoutRef(vs, td, ref, clientX, prog) ==
    IF ~Truthy(vs) \/ td = 0
    THEN [progress |-> prog, emitted |-> <<>>]
    ELSE LET x == ClampToTrack(clientX)
         IN  [progress |-> (x * 100) \div TrackWidth,
              emitted |-> <<ScrubTime(vs, td, x)>>]

\* handleScrub(clientX): the progress it leaves and the time it hands to
\* onScrubChange (<<>> when it returns early)
HandleScrub(vs, td, ref, clientX, prog) ==
    IF ~Truthy(vs) \/ td = 0 \/ ~ref
    THEN [progress |-> prog, emitted |-> <<>>]
    ELSE LET x == ClampToTrack(clientX)
         IN  [progress |-> (x * 100) \div TrackWidth,
              emitted |-> <<ScrubTime(vs, td, x)>>]

\* handleMouseDown returns early when !validStartTime || !totalDuration
MouseDownReturns(vs, td) == ~Truthy(vs) \/ td = 0

\* The effect updating progress from currentTime
ProgressEffect(vc, vs, td, dragging, prog) ==
    IF ~dragging /\ Truthy(vc) /\ Truthy(vs) /\ td > 0
    THEN Min(Max(((vc.n - vs.n) * 100) \div td, 0), 100)
    ELSE prog

\* The x coordinates a pointer event may carry: on the track and off both ends
ClientXs == (TrackLeft - 1)..(TrackLeft + TrackWidth + 1)

validStartTime == ValidTime(startTime)
validEndTime == ValidTime(estimatedEndTime)
validCurrentTime == ValidTime(currentTime)
totalDuration == TotalDuration(validStartTime, validEndTime)

\* The render of FlightScrubber that follows a state or props change: the ref is
\* attached exactly when the track is rendered, then the progress effect runs on
\* the progress p the handler left
ScrubberRender(p) ==
    /\ scrubberRef' = Renders(validStartTime', validEndTime', totalDuration')
    /\ progress' = ProgressEffect(validCurrentTime', validStartTime',
                                  totalDuration', isDragging', p)

\* The render of the map that follows a state change: FlightScrubber is rendered
\* with its props only while currentReading is set
MapRender(p) ==
    /\ IF currentReading' # Null
       THEN /\ currentTime' = CurrentTimeProp(selectedTime', currentReading')
            /\ startTime' = StartTimeProp(readings', currentReading')
            /\ estimatedEndTime' = EstimatedEndTimeProp(currentReading')
       ELSE /\ currentTime' = Null
            /\ startTime' = Null
            /\ estimatedEndTime' = Null
    /\ ScrubberRender(p)

-----------------------------------------------------------------------------
(* The state the query console and the extension start in *)

\* QueryPage: the useState initial values, and no request issued
QueryInitial ==
    /\ query = <<>>
    /\ results = Null
    /\ error = Null
    /\ loading = FALSE
    /\ pending = <<>>

\* details.requestId of the page requests that match URL_PATTERNS
RequestIds == {"r1", "r2"}

\* A page request the listener has not been called for
NotSeen == [state |-> "none", arrived |-> <<>>, written |-> <<>>, responseText |-> <<>>]

\* The extension once background.js has run: the listener is registered, no
\* request seen, none issued
ExtensionInitial ==
    /\ filters = [id \in RequestIds |-> NotSeen]
    /\ requests = <<>>
    /\ logged = {}

-----------------------------------------------------------------------------
(* The dashboard: InteractiveWorldMap and the FlightScrubber it renders *)

Init ==
    /\ lifecycle = "rendered"
    /\ interval = FALSE
    /\ inflight = <<>>
    /\ readings = <<>>
    /\ currentReading = Null
    /\ selectedTime = Null
    /\ startTime = Null
    /\ estimatedEndTime = Null
    /\ currentTime = Null
    /\ isDragging = FALSE
    /\ progress = 0
    /\ scrubberRef = FALSE
    /\ shown = Null
    /\ windCalls = <<>>
    /\ rows = <<>>
    /\ QueryInitial
    /\ ExtensionInitial
    /\ last = [op |-> "init"]

\* fetch('http://localhost:1337/readings')
ReadingsFetch == [url |-> "http://localhost:1337/readings"]

\* i removed from a sequence
Without(seq, i) == SubSeq(seq, 1, i - 1) \o SubSeq(seq, i + 1, Len(seq))

\* The fetches in flight that may complete next: any of them, in any order. Of
\* several that are alike, the oldest stands for them all.
Completable(i) ==
    /\ i \in 1..Len(inflight)
    /\ \A j \in 1..(i - 1) : inflight[j] # inflight[i]

\* The effect of the first render: fetchReadings() and setInterval(fetchReadings, 1000)
MountEffect ==
    /\ lifecycle = "rendered"
    /\ lifecycle' = "mounted"
    /\ inflight' = Append(inflight, ReadingsFetch)
    /\ interval' = TRUE
    /\ last' = [op |-> "mount"]
    /\ UNCHANGED <<readings, currentReading, selectedTime>>
    /\ UNCHANGED scrubberVars
    /\ UNCHANGED displayVars
    /\ UNCHANGED <<queryVars, extensionVars>>

\* Mutant: the timer callback gives up once a fetch has failed
TickUnlessFailed ==
    /\ interval
    /\ last.op # "fetchFail"
    /\ Len(inflight) < MaxInFlight
    /\ inflight' = Append(inflight, ReadingsFetch)
    /\ last' = [op |-> "tick"]
    /\ UNCHANGED <<lifecycle, interval, readings, currentReading, selectedTime>>
    /\ UNCHANGED scrubberVars
    /\ UNCHANGED displayVars
    /\ UNCHANGED <<queryVars, extensionVars>>

\* The timer fires: fetchReadings() issues a fetch, whatever is in flight
Tick ==
    /\ interval
    /\ Len(inflight) < MaxInFlight
    /\ inflight' = Append(inflight, ReadingsFetch)
    /\ last' = [op |-> "tick"]
    /\ UNCHANGED <<lifecycle, interval, readings, currentReading, selectedTime>>
    /\ UNCHANGED scrubberVars
    /\ UNCHANGED displayVars
    /\ UNCHANGED <<queryVars, extensionVars>>

\* A fetch completes with the array data. State setters of an unmounted
\* component do nothing.
FetchSuccess(i, data) ==
    /\ Completable(i)
    /\ inflight' = Without(inflight, i)
    /\ LET set == ApplyReadings(data, currentReading)
       IN  IF lifecycle = "mounted"
           THEN /\ readings' = set.readings
                /\ currentReading' = set.currentReading
           ELSE UNCHANGED <<readings, currentReading>>
    /\ last' = [op |-> "fetchOk", data |-> data]
    /\ UNCHANGED <<lifecycle, interval, selectedTime, isDragging>>
    /\ MapRender(progress)
    /\ UNCHANGED displayVars
    /\ UNCHANGED <<queryVars, extensionVars>>

\* Mutant: a body that is no array is stored before the sort throws
FetchFailureStoring(i, cause) ==
    /\ Completable(i)
    /\ inflight' = Without(inflight, i)
    /\ last' = [op |-> "fetchFail", cause |-> cause]
    /\ readings' = IF cause = "notArray" THEN <<>> ELSE readings
    /\ UNCHANGED <<lifecycle, interval, currentReading, selectedTime, isDragging>>
    /\ MapRender(progress)
    /\ UNCHANGED displayVars
    /\ UNCHANGED <<queryVars, extensionVars>>

\* A fetch fails: the catch block logs the error
FetchFailure(i, cause) ==
    /\ Completable(i)
    /\ inflight' = Without(inflight, i)
    /\ last' = [op |-> "fetchFail", cause |-> cause]
    /\ UNCHANGED <<lifecycle, interval, readings, currentReading, selectedTime>>
    /\ UNCHANGED scrubberVars
    /\ UNCHANGED displayVars
    /\ UNCHANGED <<queryVars, extensionVars>>

\* Mutant: the cleanup leaves the timer set
UnmountKeepingInterval ==
    /\ lifecycle = "mounted"
    /\ lifecycle' = "unmounted"
    /\ last' = [op |-> "unmount"]
    /\ UNCHANGED <<interval, inflight, readings, currentReading, selectedTime>>
    /\ UNCHANGED scrubberVars
    /\ UNCHANGED displayVars
    /\ UNCHANGED <<queryVars, extensionVars>>

\* The cleanup of the polling effect: clearInterval(interval)
Unmount ==
    /\ lifecycle = "mounted"
    /\ lifecycle' = "unmounted"
    /\ interval' = FALSE
    /\ last' = [op |-> "unmount"]
    /\ UNCHANGED <<inflight, readings, currentReading, selectedTime>>
    /\ UNCHANGED scrubberVars
    /\ UNCHANGED displayVars
    /\ UNCHANGED <<queryVars, extensionVars>>

\* What a pointer handler of the scrubber does to the map: handleScrub hands
\* its time, if any, to onScrubChange
Scrubbed(op, clientX, scrub) ==
    /\ IF scrub.emitted # <<>>
       THEN LET set == OnScrubChange(readings, currentReading, scrub.emitted[1])
            IN  /\ selectedTime' = set.selectedTime
                /\ currentReading' = set.currentReading
                /\ last' = [op |-> op, emitted |-> scrub.emitted,
                            threw |-> set.threw]
       ELSE /\ UNCHANGED <<selectedTime, currentReading>>
            /\ last' = [op |-> op, emitted |-> <<>>, threw |-> FALSE]
    /\ UNCHANGED <<lifecycle, interval, inflight, readings>>
    /\ MapRender(scrub.progress)
    /\ UNCHANGED displayVars
    /\ UNCHANGED <<queryVars, extensionVars>>

\* onMouseDown of the track, which is there only while it is rendered
MouseDown(clientX) ==
    /\ lifecycle = "mounted"
    /\ scrubberRef
    /\ IF MouseDownReturns(validStartTime, totalDuration)
       THEN /\ UNCHANGED isDragging
            /\ Scrubbed("mouseDown", clientX, [progress |-> progress, emitted |-> <<>>])
       ELSE /\ isDragging' = TRUE
            /\ Scrubbed("mouseDown", clientX,
                        HandleScrub(validStartTime, totalDuration, scrubberRef,
                                    clientX, progress))

\* mousemove on the window, listened to while isDragging
MouseMove(clientX) ==
    /\ lifecycle = "mounted"
    /\ isDragging
    /\ UNCHANGED isDragging
    /\ Scrubbed("mouseMove", clientX,
                HandleScrub(validStartTime, totalDuration, scrubberRef,
                            clientX, progress))

\* mouseup on the window, listened to while isDragging
MouseUp ==
    /\ lifecycle = "mounted"
    /\ isDragging
    /\ isDragging' = FALSE
    /\ last' = [op |-> "mouseUp"]
    /\ UNCHANGED mapVars
    /\ MapRender(progress)
    /\ UNCHANGED displayVars
    /\ UNCHANGED <<queryVars, extensionVars>>

Next ==
    \/ MountEffect
    \/ Tick
    \/ \E i \in 1..MaxInFlight, data \in Bodies : FetchSuccess(i, data)
    \/ \E i \in 1..MaxInFlight, cause \in FailureCauses : FetchFailure(i, cause)
    \/ \E clientX \in ClientXs : MouseDown(clientX)
    \/ \E clientX \in ClientXs : MouseMove(clientX)
    \/ MouseUp

Spec == Init /\ [][Next]_vars

\* The polling of the map with its teardown: the map is unmounted at any time
\* after its effects have run. The pointer handlers, which issue no fetch, are
\* left to Spec.
NextTeardown ==
    \/ MountEffect
    \/ Tick
    \/ \E i \in 1..MaxInFlight, data \in Bodies : FetchSuccess(i, data)
    \/ \E i \in 1..MaxInFlight, cause \in FailureCauses : FetchFailure(i, cause)
    \/ Unmount

SpecTeardown == Init /\ [][NextTeardown]_vars

-----------------------------------------------------------------------------
(* The sort of fetchReadings on responses that hold several readings of one  *)
(* timestamp                                                                 *)

\* Readings that share a timestamp and differ in another field
TiedReadingValues ==
    {Reading(t, eta) : t \in {100, 200}, eta \in {Null} \cup {Str(s) : s \in EtaStrings}}

TiedBodies == UNION {[1..n -> TiedReadingValues] : n \in 0..MaxLen}

NextSort ==
    \/ MountEffect
    \/ Tick
    \/ \E i \in 1..MaxInFlight, data \in TiedBodies : FetchSuccess(i, data)

SpecSort == Init /\ [][NextSort]_vars

-----------------------------------------------------------------------------
(* The polling with every fetch numbered in the order of issue, so that the   *)
(* order of the completions can be told from the order of the issues. last    *)
(* keeps the number of fetches issued, the number of the fetch whose response *)
(* was applied last and of the one applied before that.                       *)

InitOrder ==
    /\ lifecycle = "rendered"
    /\ interval = FALSE
    /\ inflight = <<>>
    /\ readings = <<>>
    /\ currentReading = Null
    /\ selectedTime = Null
    /\ startTime = Null
    /\ estimatedEndTime = Null
    /\ currentTime = Null
    /\ isDragging = FALSE
    /\ progress = 0
    /\ scrubberRef = FALSE
    /\ shown = Null
    /\ windCalls = <<>>
    /\ rows = <<>>
    /\ QueryInitial
    /\ ExtensionInitial
    /\ last = [op |-> "init", issued |-> 0, applied |-> 0, before |-> 0]

\* The fetch of the n-th call of fetchReadings
NumberedFetch(n) == [url |-> ReadingsFetch.url, issue |-> n]

\* The effect of the first render: fetchReadings() and setInterval(fetchReadings, 1000)
OrderMountEffect ==
    /\ lifecycle = "rendered"
    /\ lifecycle' = "mounted"
    /\ inflight' = Append(inflight, NumberedFetch(last.issued + 1))
    /\ interval' = TRUE
    /\ last' = [last EXCEPT !.op = "mount", !.issued = @ + 1]
    /\ UNCHANGED <<readings, currentReading, selectedTime>>
    /\ UNCHANGED scrubberVars
    /\ UNCHANGED displayVars
    /\ UNCHANGED <<queryVars, extensionVars>>

\* The timer fires: fetchReadings() issues a fetch, whatever is in flight
OrderTick ==
    /\ interval
    /\ Len(inflight) < MaxInFlight
    /\ last.issued < MaxIssued
    /\ inflight' = Append(inflight, NumberedFetch(last.issued + 1))
    /\ last' = [last EXCEPT !.op = "tick", !.issued = @ + 1]
    /\ UNCHANGED <<lifecycle, interval, readings, currentReading, selectedTime>>
    /\ UNCHANGED scrubberVars
    /\ UNCHANGED displayVars
    /\ UNCHANGED <<queryVars, extensionVars>>

\* Any fetch in flight completes with the array data, which is sorted and stored
OrderFetchSuccess(i, data) ==
    /\ i \in 1..Len(inflight)
    /\ inflight' = Without(inflight, i)
    /\ LET set == ApplyReadings(data, currentReading)
       IN  /\ readings' = set.readings
           /\ currentReading' = set.currentReading
    /\ last' = [last EXCEPT !.op = "fetchOk", !.applied = inflight[i].issue,
                            !.before = last.applied]
    /\ UNCHANGED <<lifecycle, interval, selectedTime, isDragging>>
    /\ MapRender(progress)
    /\ UNCHANGED displayVars
    /\ UNCHANGED <<queryVars, extensionVars>>

\* Any fetch in flight fails: the catch block logs the error
OrderFetchFailure(i) ==
    /\ i \in 1..Len(inflight)
    /\ inflight' = Without(inflight, i)
    /\ last' = [last EXCEPT !.op = "fetchFail"]
    /\ UNCHANGED <<lifecycle, interval, readings, currentReading, selectedTime>>
    /\ UNCHANGED scrubberVars
    /\ UNCHANGED displayVars
    /\ UNCHANGED <<queryVars, extensionVars>>

NextOrder ==
    \/ OrderMountEffect
    \/ OrderTick
    \/ \E i \in 1..MaxInFlight, data \in Bodies : OrderFetchSuccess(i, data)
    \/ \E i \in 1..MaxInFlight : OrderFetchFailure(i)

SpecOrder == InitOrder /\ [][NextOrder]_vars

-----------------------------------------------------------------------------
(* FlightScrubber on its own: a parent that hands it any props and records   *)
(* what onScrubChange is called with                                         *)

\* The values a parent may hand over as startTime and estimatedEndTime:
\* nothing, epoch milliseconds, a date string, a string that is no date
StartTimeProps == {Null, Num(0), Num(100), Num(200)}
EndTimeProps ==
    {Null, Num(100), Num(200), Num(305),
     Str("1970-01-01T00:00:00.150Z"), Str("soon")}
CurrentTimeProps == {Null, Num(100), Num(250)}

InitScrubber ==
    /\ lifecycle = "mounted"
    /\ interval = FALSE
    /\ inflight = <<>>
    /\ readings = <<>>
    /\ currentReading = Null
    /\ selectedTime = Null
    /\ startTime \in StartTimeProps
    /\ estimatedEndTime \in EndTimeProps
    /\ currentTime \in CurrentTimeProps
    /\ isDragging = FALSE
    /\ scrubberRef = Renders(validStartTime, validEndTime, totalDuration)
    /\ progress = ProgressEffect(validCurrentTime, validStartTime, totalDuration,
                                 FALSE, 0)
    /\ shown = Null
    /\ windCalls = <<>>
    /\ rows = <<>>
    /\ QueryInitial
    /\ ExtensionInitial
    /\ last = [op |-> "init"]

\* The parent renders again with other props
PropsChange(st, et, ct) ==
    /\ startTime' = st
    /\ estimatedEndTime' = et
    /\ currentTime' = ct
    /\ last' = [op |-> "props"]
    /\ UNCHANGED isDragging
    /\ ScrubberRender(progress)
    /\ UNCHANGED mapVars
    /\ UNCHANGED displayVars
    /\ UNCHANGED <<queryVars, extensionVars>>

\* A pointer handler ran: scrub is what handleScrub left and emitted
Emitted(op, clientX, scrub) ==
    /\ last' = [op |-> op, clientX |-> clientX, emitted |-> scrub.emitted]
    /\ UNCHANGED <<startTime, estimatedEndTime, currentTime>>
    /\ ScrubberRender(scrub.progress)
    /\ UNCHANGED mapVars
    /\ UNCHANGED displayVars
    /\ UNCHANGED <<queryVars, extensionVars>>

ScrubberMouseDown(clientX) ==
    /\ scrubberRef
    /\ IF MouseDownReturns(validStartTime, totalDuration)
       THEN /\ UNCHANGED isDragging
            /\ Emitted("mouseDown", clientX, [progress |-> progress, emitted |-> <<>>])
       ELSE /\ isDragging' = TRUE
            /\ Emitted("mouseDown", clientX,
                       HandleScrub(validStartTime, totalDuration, scrubberRef,
                                   clientX, progress))

ScrubberMouseMove(clientX) ==
    /\ isDragging
    /\ UNCHANGED isDragging
    /\ Emitted("mouseMove", clientX,
               HandleScrub(validStartTime, totalDuration, scrubberRef,
                           clientX, progress))

ScrubberMouseUp ==
    /\ isDragging
    /\ isDragging' = FALSE
    /\ last' = [op |-> "mouseUp"]
    /\ UNCHANGED <<startTime, estimatedEndTime, currentTime>>
    /\ ScrubberRender(progress)
    /\ UNCHANGED mapVars
    /\ UNCHANGED displayVars
    /\ UNCHANGED <<queryVars, extensionVars>>

NextScrubber ==
    \/ \E st \in StartTimeProps, et \in EndTimeProps, ct \in CurrentTimeProps :
          PropsChange(st, et, ct)
    \/ \E clientX \in ClientXs : ScrubberMouseDown(clientX)
    \/ \E clientX \in ClientXs : ScrubberMouseMove(clientX)
    \/ ScrubberMouseUp

SpecScrubber == InitScrubber /\ [][NextScrubber]_vars

-----------------------------------------------------------------------------
(* getTableSections: the rows of the flight data table *)

\* const SHOW_UNKNOWN = true
SHOW_UNKNOWN == TRUE

\* 1000 * cos of an angle in degrees, for the multiples of 30 degrees
CosMilli(deg) ==
    CASE deg % 360 \in {0} -> 1000
      [] deg % 360 \in {30, 330} -> 866
      [] deg % 360 \in {60, 300} -> 500
      [] deg % 360 \in {90, 270} -> 0
      [] deg % 360 \in {120, 240} -> -500
      [] deg % 360 \in {150, 210} -> -866
      [] deg % 360 \in {180} -> -1000

\* The number an operand of * stands for: null counts as 0
ToNumber(v) == IF v.js = "number" THEN v.n ELSE 0

\* Mutant: the angles are added
CalculateWindComponentSum(trueHeading, windDirection, windSpeed) ==
    Num(ToNumber(windSpeed) * CosMilli(ToNumber(windDirection) + ToNumber(trueHeading)))

\* calculateWindComponent, in thousandths of the speed unit:
\* windSpeed * Math.cos(windDirRad - headingRad)
CalculateWindComponent(trueHeading, windDirection, windSpeed) ==
    Num(ToNumber(windSpeed) * CosMilli(ToNumber(windDirection) - ToNumber(trueHeading)))

\* Mutant: || for &&
WindInputsAnyGiven(r) ==
    Truthy(r.wind_speed) \/ Truthy(r.wind_direction) \/ Truthy(r.true_heading)

\* wind_speed && wind_direction && true_heading: whether the calculation is called
WindInputsGiven(r) ==
    Truthy(r.wind_speed) /\ Truthy(r.wind_direction) /\ Truthy(r.true_heading)

\* The calls of calculateWindComponent one getTableSections makes, each with
\* what it returned
WindCallsOf(r) ==
    IF WindInputsGiven(r)
    THEN <<[true_heading |-> r.true_heading, wind_direction |-> r.wind_direction,
            wind_speed |-> r.wind_speed,
            result |-> CalculateWindComponent(r.true_heading, r.wind_direction,
                                              r.wind_speed)]>>
    ELSE <<>>

WindComponentOf(r) ==
    IF WindInputsGiven(r)
    THEN CalculateWindComponent(r.true_heading, r.wind_direction, r.wind_speed)
    ELSE Null

\* formatOrSkip(value, formatter), formatted being formatter(value)
FormatOrSkip(value, formatted) ==
    IF value = Null \/ value = Str("")
    THEN IF SHOW_UNKNOWN THEN Str("Unknown") ELSE Null
    ELSE formatted

\* `${Math.abs(v).toFixed(1)} km/h ${v > 0 ? 'tailwind' : 'headwind'}`: the
\* magnitude in tenths, rounded, and the word
WindEffectText(v) ==
    [tenths |-> (Abs(ToNumber(v)) + 50) \div 100,
     unit |-> "km/h",
     word |-> IF ToNumber(v) > 0 THEN "tailwind" ELSE "headwind"]

\* A template string, as the values and the literal text it is put together from
Text(parts) == [js |-> "text", parts |-> parts]

\* v.toFixed(digits) of a number
ToFixed(v, digits) == [js |-> "fixed", n |-> v.n, digits |-> digits]

\* new Date(v).toLocaleTimeString()
ToLocaleTimeString(v) == [js |-> "localeTime", time |-> DateGetTime(v)]

\* v === '1' ? 'Yes' : 'No'
YesNo(v) == IF v = Str("1") THEN Str("Yes") ELSE Str("No")

\* a && b
AndThen(a, b) == IF Truthy(a) THEN b ELSE a

\* The own properties of the object literal phases
phases ==
    [code \in {"1", "2", "3", "4", "5", "6", "7", "8"} |->
        CASE code = "1" -> Str("Pre-flight")
          [] code = "2" -> Str("Taxi")
          [] code = "3" -> Str("Take-off")
          [] code = "4" -> Str("Initial Climb")
          [] code = "5" -> Str("En Route")
          [] code = "6" -> Str("Approach")
          [] code = "7" -> Str("Landing")
          [] code = "8" -> Str("Post-flight")]

\* The properties an object literal inherits from Object.prototype, all of them
\* functions but __proto__, which is the prototype object
ObjectPrototypeProperties ==
    {"constructor", "hasOwnProperty", "isPrototypeOf", "propertyIsEnumerable",
     "toLocaleString", "toString", "valueOf", "__proto__"}

\* phases[phase]: an own property, else one found on the prototype chain, else
\* undefined
PhasesLookup(key) ==
    IF key \in DOMAIN phases THEN phases[key]
    ELSE IF key = "__proto__" THEN [js |-> "object", name |-> "Object.prototype"]
    ELSE IF key \in ObjectPrototypeProperties
         THEN [js |-> "function", name |-> key]
    ELSE Null

\* getPhaseDescription: phases[phase] || phase
getPhaseDescription(phase) == OrElse(PhasesLookup(phase.s), phase)

\* getTableSections: the value of every row but "Time now", by its label. The
\* rows whose value is null are filtered out.
GetTableSections(r) ==
    LET windComponent == WindComponentOf(r)
        timeInAirMinutes == OrElse(r.total_flight_time_minutes, Num(0))
        hours == timeInAirMinutes.n \div 60
        minutes == timeInAirMinutes.n % 60
        phase == OrElse(r.state, r.flight_phase)
        data ==
            [flightNumber |-> FormatOrSkip(r.flight_number, r.flight_number),
             aircraft |-> FormatOrSkip(r.aircraft_type, r.aircraft_type),
             route |-> FormatOrSkip(AndThen(r.departure_airport, r.destination_airport),
                                    Text(<<r.departure_airport, Str(" -> "),
                                           r.destination_airport>>)),
             timeInAir |-> FormatOrSkip(timeInAirMinutes,
                                        Text(<<Num(hours), Str("h "),
                                               Num(minutes), Str("m")>>)),
             latitude |-> FormatOrSkip(r.latitude, ToFixed(r.latitude, 4)),
             longitude |-> FormatOrSkip(r.longitude, ToFixed(r.longitude, 4)),
             altitude |-> FormatOrSkip(r.altitude, Text(<<r.altitude, Str(" ft")>>)),
             trueHeading |-> FormatOrSkip(r.true_heading,
                                          Text(<<ToFixed(r.true_heading, 1), Str("deg")>>)),
             groundSpeed |-> FormatOrSkip(r.ground_speed,
                                          Text(<<r.ground_speed, Str(" km/h")>>)),
             airTemp |-> FormatOrSkip(r.outside_air_temperature,
                                      Text(<<r.outside_air_temperature, Str("degC")>>)),
             wind |-> FormatOrSkip(AndThen(r.wind_speed, r.wind_direction),
                                   Text(<<r.wind_speed, Str(" km/h from "),
                                          r.wind_direction, Str("deg")>>)),
             windEffect |-> FormatOrSkip(windComponent, WindEffectText(windComponent)),
             distFromOrigin |-> FormatOrSkip(r.distance_from_origin,
                                             Text(<<r.distance_from_origin, Str(" km")>>)),
             distTraveled |-> FormatOrSkip(r.distance_traveled,
                                           Text(<<r.distance_traveled, Str(" km")>>)),
             distToDest |-> FormatOrSkip(r.distance_to_destination,
                                         Text(<<r.distance_to_destination, Str(" km")>>)),
             timeToDest |-> FormatOrSkip(r.time_to_destination_minutes,
                                         Text(<<r.time_to_destination_minutes,
                                                Str(" min")>>)),
             estArrival |-> FormatOrSkip(r.estimated_arrival_time,
                                         ToLocaleTimeString(r.estimated_arrival_time)),
             scheduledDeparture |-> FormatOrSkip(r.scheduled_departure_time,
                                                 ToLocaleTimeString(r.scheduled_departure_time)),
             flightPhase |-> FormatOrSkip(phase, getPhaseDescription(phase)),
             weightOnWheels |-> FormatOrSkip(r.weight_on_wheels, YesNo(r.weight_on_wheels)),
             doorsClosed |-> FormatOrSkip(r.all_doors_closed, YesNo(r.all_doors_closed)),
             decompression |-> FormatOrSkip(r.decompression, YesNo(r.decompression))]
    IN  [label \in {l \in DOMAIN data : data[l] # Null} |-> data[label]]

\* The fields of a Reading that the table shows
ReadingFields ==
    {"flight_number", "aircraft_type", "departure_airport", "destination_airport",
     "total_flight_time_minutes", "latitude", "longitude", "altitude",
     "true_heading", "ground_speed", "outside_air_temperature", "wind_speed",
     "wind_direction", "distance_from_origin", "distance_traveled",
     "distance_to_destination", "time_to_destination_minutes",
     "estimated_arrival_time", "scheduled_departure_time", "state",
     "flight_phase", "weight_on_wheels", "all_doors_closed", "decompression"}

\* The fields that hold text, the others holding numbers
TextFields ==
    {"flight_number", "aircraft_type", "departure_airport", "destination_airport",
     "estimated_arrival_time", "scheduled_departure_time", "state",
     "flight_phase", "weight_on_wheels", "all_doors_closed", "decompression"}

\* The wind fields a reading may carry: absent, or a number
Headings == {Null, Num(0), Num(90), Num(150), Num(210), Num(270)}
WindDirections == {Null, Num(0), Num(90), Num(150), Num(210), Num(270)}
WindSpeeds == {Null, Num(0), Num(20), Num(35)}

\* The phase codes a reading may carry in state or flight_phase
PhaseCodes ==
    {"1", "2", "3", "4", "5", "6", "7", "8", "0", "9", "cruise", "constructor"}

\* The values a field may have when it is there
FieldValues(f) ==
    CASE f \in {"state", "flight_phase"} -> {Str(c) : c \in PhaseCodes}
      [] f \in {"weight_on_wheels", "all_doors_closed", "decompression"} ->
            {Str("0"), Str("1")}
      [] f \in {"estimated_arrival_time", "scheduled_departure_time"} ->
            {Str(s) : s \in EtaStrings}
      [] f \in TextFields -> {Str("LHR")}
      [] f = "true_heading" -> Headings \ {Null}
      [] f = "wind_direction" -> WindDirections \ {Null}
      [] f = "wind_speed" -> WindSpeeds \ {Null}
      [] OTHER -> {Num(0), Num(125)}

\* A reading none of whose fields is there, and one with all of them
AbsentReading == [f \in ReadingFields |-> Null]
FullReading == [f \in ReadingFields |-> CHOOSE v \in FieldValues(f) : Truthy(v)]

\* The readings shown: every combination of the wind fields and of the two phase
\* fields, and every single field there, null or empty beside the others absent
\* and beside the others there
DisplayReadings ==
    {[AbsentReading EXCEPT !.true_heading = h, !.wind_direction = d, !.wind_speed = s] :
        h \in Headings, d \in WindDirections, s \in WindSpeeds}
    \cup {[AbsentReading EXCEPT !.state = st, !.flight_phase = fp] :
             st \in FieldValues("state") \cup {Null, Str("")},
             fp \in {Null, Str(""), Str("5"), Str("cruise")}}
    \cup UNION {{[base EXCEPT ![f] = v] :
                    v \in FieldValues(f) \cup (IF f \in TextFields
                                               THEN {Null, Str("")} ELSE {Null})} :
                f \in ReadingFields, base \in {AbsentReading, FullReading}}

InitDisplay ==
    /\ lifecycle = "mounted"
    /\ interval = FALSE
    /\ inflight = <<>>
    /\ readings = <<>>
    /\ currentReading = Null
    /\ selectedTime = Null
    /\ startTime = Null
    /\ estimatedEndTime = Null
    /\ currentTime = Null
    /\ isDragging = FALSE
    /\ progress = 0
    /\ scrubberRef = FALSE
    /\ shown = Null
    /\ windCalls = <<>>
    /\ rows = <<>>
    /\ QueryInitial
    /\ ExtensionInitial
    /\ last = [op |-> "init"]

\* FlightDataDisplay renders the reading r
DisplayReading(r) ==
    /\ shown' = r
    /\ windCalls' = WindCallsOf(r)
    /\ rows' = GetTableSections(r)
    /\ last' = [op |-> "display"]
    /\ UNCHANGED mapVars
    /\ UNCHANGED scrubberVars
    /\ UNCHANGED <<queryVars, extensionVars>>

NextDisplay == \E r \in DisplayReadings : DisplayReading(r)

SpecDisplay == InitDisplay /\ [][NextDisplay]_vars

-----------------------------------------------------------------------------
(* The query console: QueryPage *)

dashboardVars == <<mapVars, scrubberVars, displayVars>>

\* The characters of a query: white space and anything else
QueryChars == {" ", "q"}

\* e.target.value of the textarea
Queries == UNION {[1..n -> QueryChars] : n \in 0..MaxQueryLen}

\* query.trim()
RECURSIVE Trim(_)
Trim(q) ==
    IF q = <<>> THEN q
    ELSE IF Head(q) = " " THEN Trim(Tail(q))
    ELSE IF q[Len(q)] = " " THEN Trim(SubSeq(q, 1, Len(q) - 1))
    ELSE q

\* !query.trim(): the empty string is falsy
Blank(q) == Trim(q) = <<>>

\* fetch('http://localhost:1337/query', {method: 'POST', body: JSON.stringify({ query })})
QueryFetch(q) ==
    [url |-> "http://localhost:1337/query", method |-> "POST", body |-> [query |-> q]]

\* A JSON array and a JSON object with at most an error property
Array(items) == [js |-> "array", items |-> items]
Object(err) == [js |-> "object", error |-> err]

\* The row arrays POST /query answers a statement with
RowArrays == {Array(<<>>), Array(<<[n |-> Num(1)]>>)}

\* How a request ends: a 200 with the rows, another status with a JSON body
\* that has an error text, an empty one or none, a body that is no JSON, or no
\* response at all
QueryResponses ==
    {[kind |-> "response", ok |-> TRUE, data |-> rs] : rs \in RowArrays}
    \cup {[kind |-> "response", ok |-> FALSE, data |-> Object(e)] :
             e \in {Str("no such table: reading"), Str(""), Null}}
    \cup {[kind |-> "invalidJson", ok |-> ok] : ok \in BOOLEAN}
    \cup {[kind |-> "networkError"]}

\* An Error object
ErrorOf(message) == [js |-> "object", isError |-> TRUE, message |-> message]

\* Mutant: the server's error text is not looked at
QueryThrownDefaultMessage(resp) ==
    CASE resp.kind = "networkError" ->
            ErrorOf(Str("NetworkError when attempting to fetch resource."))
      [] resp.kind = "invalidJson" ->
            ErrorOf(Str("JSON.parse: unexpected character at line 1 column 1"))
      [] resp.kind = "response" /\ ~resp.ok ->
            ErrorOf(Str("Failed to execute query"))
      [] OTHER -> Null

\* What the try block of handleSubmit throws, null if it runs to its end: fetch
\* rejects with a TypeError, response.json() with a SyntaxError, and a response
\* that is not ok makes new Error(data.error || 'Failed to execute query')
QueryThrown(resp) ==
    CASE resp.kind = "networkError" ->
            ErrorOf(Str("NetworkError when attempting to fetch resource."))
      [] resp.kind = "invalidJson" ->
            ErrorOf(Str("JSON.parse: unexpected character at line 1 column 1"))
      [] resp.kind = "response" /\ ~resp.ok ->
            ErrorOf(OrElse(resp.data.error, Str("Failed to execute query")))
      [] OTHER -> Null

\* err instanceof Error ? err.message : 'An error occurred'
CatchMessage(err) == IF err.isError THEN err.message ELSE Str("An error occurred")

\* onChange of the textarea
SetQuery(q) ==
    /\ query' = q
    /\ last' = [op |-> "setQuery"]
    /\ UNCHANGED <<results, error, loading, pending>>
    /\ UNCHANGED <<dashboardVars, extensionVars>>

\* Mutant: the error of the query before is left standing
HandleSubmitKeepingError ==
    /\ loading' = TRUE
    /\ results' = Null
    /\ pending' = Append(pending, QueryFetch(query))
    /\ last' = [op |-> "submit", results |-> results, error |-> error]
    /\ UNCHANGED <<query, error>>
    /\ UNCHANGED <<dashboardVars, extensionVars>>

\* handleSubmit up to its await: the three setters and the fetch
HandleSubmit ==
    /\ loading' = TRUE
    /\ error' = Null
    /\ results' = Null
    /\ pending' = Append(pending, QueryFetch(query))
    /\ last' = [op |-> "submit", results |-> results, error |-> error]
    /\ UNCHANGED query
    /\ UNCHANGED <<dashboardVars, extensionVars>>

\* A click on Execute, which is disabled while loading || !query.trim()
SubmitClick ==
    /\ ~(loading \/ Blank(query))
    /\ HandleSubmit

\* Mutant: handleKeyDown does not look at loading
SubmitKeyDownWhileLoading ==
    /\ ~Blank(query)
    /\ HandleSubmit

\* handleKeyDown with Cmd/Ctrl + Enter, the only keys it acts on
SubmitKeyDown ==
    /\ ~loading
    /\ ~Blank(query)
    /\ HandleSubmit

\* The rest of handleSubmit, run when request i completes with resp: setResults
\* of the data, or setError in the catch block, and setLoading(false) in finally
QueryCompletes(i, resp) ==
    /\ i \in 1..Len(pending)
    /\ pending' = Without(pending, i)
    /\ LET thrown == QueryThrown(resp)
       IN  IF thrown = Null
           THEN /\ results' = resp.data
                /\ UNCHANGED error
           ELSE /\ error' = CatchMessage(thrown)
                /\ UNCHANGED results
    /\ loading' = FALSE
    /\ last' = [op |-> "queryDone", response |-> resp]
    /\ UNCHANGED query
    /\ UNCHANGED <<dashboardVars, extensionVars>>

NextQuery ==
    \/ \E q \in Queries : SetQuery(q)
    \/ SubmitClick
    \/ SubmitKeyDown
    \/ \E i \in 1..Len(pending), resp \in QueryResponses : QueryCompletes(i, resp)

SpecQuery == Init /\ [][NextQuery]_vars

-----------------------------------------------------------------------------
(* The recorder: background.js of the Firefox extension *)

\* API_CONFIG
API_CONFIG == [baseUrl |-> "http://127.0.0.1:1337", recordEndpoint |-> "/record"]

\* `${API_CONFIG.baseUrl}${API_CONFIG.recordEndpoint}`
RecordUrl == API_CONFIG.baseUrl \o API_CONFIG.recordEndpoint

\* event.data: the bytes of one data event. "hi" and "lo" are the two bytes of
\* one character in UTF-8, which the network may deliver together or apart.
Chunks == {<<"hi", "lo">>, <<"hi">>, <<"lo">>}

\* new TextDecoder().decode(bytes, {stream: true}): a whole character is
\* decoded, a byte that cannot start or continue one becomes U+FFFD, and the
\* first byte of a character at the end is kept inside the decoder for a next
\* call
RECURSIVE DecodeStream(_)
DecodeStream(bytes) ==
    IF bytes = <<>> THEN <<>>
    ELSE IF Head(bytes) = "hi"
         THEN IF Len(bytes) = 1 THEN <<>>
              ELSE IF bytes[2] = "lo"
                   THEN <<"char">> \o DecodeStream(SubSeq(bytes, 3, Len(bytes)))
                   ELSE <<"U+FFFD">> \o DecodeStream(Tail(bytes))
         ELSE <<"U+FFFD">> \o DecodeStream(Tail(bytes))

\* new TextDecoder().decode(): a decoder that has been given nothing has nothing
\* to flush
DecodeFlush == <<>>

\* Date.now() at the time a response ends
Times == {1001, 1002}

\* formatDataForApi
formatDataForApi(capturedData, now) == [raw |-> capturedData, timestamp |-> now]

\* The fetch of sendToApi
RecordFetch(data) ==
    [url |-> RecordUrl, method |-> "POST", body |-> [content |-> data]]

\* How the fetch of sendToApi ends: an ok response with a JSON body, a response
\* that is not ok, an ok response whose body is no JSON, or no response
SendOutcomes == {"ok", "notOk", "invalidJson", "networkError"}

\* Mutant: the chunk is written as the text decoded from it
WriteDecoded(written, data) == Append(written, DecodeStream(data))

\* filter.write(event.data)
FilterWrite(written, data) == Append(written, data)

\* The listener runs for the page request id: filterResponseData attaches a
\* filter, or throws, which the outer catch logs
OnBeforeRequest(id, threw) ==
    /\ filters[id].state = "none"
    /\ IF threw
       THEN /\ filters' = [filters EXCEPT ![id].state = "unfiltered"]
            /\ logged' = logged \cup {[message |-> "Error setting up filter:", id |-> id]}
       ELSE /\ filters' = [filters EXCEPT ![id].state = "open"]
            /\ UNCHANGED logged
    /\ last' = [op |-> "beforeRequest", id |-> id]
    /\ UNCHANGED requests
    /\ UNCHANGED <<dashboardVars, queryVars>>

\* filter.ondata
OnData(id, data) ==
    /\ filters[id].state = "open"
    /\ Len(filters[id].arrived) < MaxChunks
    /\ filters' = [filters EXCEPT
                      ![id].arrived = Append(@, data),
                      ![id].written = FilterWrite(@, data),
                      ![id].responseText = @ \o DecodeStream(data)]
    /\ last' = [op |-> "data", id |-> id]
    /\ UNCHANGED <<requests, logged>>
    /\ UNCHANGED <<dashboardVars, queryVars>>

\* filter.onstop up to its await: the text is formatted and sendToApi issues
\* its fetch
OnStop(id, now) ==
    /\ filters[id].state = "open"
    /\ LET responseText == filters[id].responseText \o DecodeFlush
           formattedData == formatDataForApi(responseText, now)
       IN  /\ filters' = [filters EXCEPT ![id].state = "sending",
                                         ![id].responseText = responseText]
           /\ requests' = Append(requests, RecordFetch(formattedData))
           /\ last' = [op |-> "stop", id |-> id, now |-> now, text |-> responseText]
    /\ UNCHANGED logged
    /\ UNCHANGED <<dashboardVars, queryVars>>

\* What console.error has written once the sending for id has failed: sendToApi
\* logs and rethrows, the catch block of onstop logs
SendFailureLogged(id) ==
    {[message |-> "Error sending data to API:", id |-> id],
     [message |-> "Failed to send data to API:", id |-> id]}

\* Mutant: the error sendToApi rethrows is not caught, so onstop ends there
SendCompletesUncaught(id, outcome) ==
    /\ filters[id].state = "sending"
    /\ IF outcome = "ok"
       THEN /\ filters' = [filters EXCEPT ![id].state = "disconnected"]
            /\ UNCHANGED logged
       ELSE /\ logged' = logged \cup SendFailureLogged(id)
            /\ UNCHANGED filters
    /\ last' = [op |-> "sent", id |-> id, outcome |-> outcome]
    /\ UNCHANGED requests
    /\ UNCHANGED <<dashboardVars, queryVars>>

\* The rest of filter.onstop, run when the fetch of sendToApi has ended:
\* whatever the outcome, filter.disconnect()
SendCompletes(id, outcome) ==
    /\ filters[id].state = "sending"
    /\ filters' = [filters EXCEPT ![id].state = "disconnected"]
    /\ logged' = IF outcome = "ok" THEN logged ELSE logged \cup SendFailureLogged(id)
    /\ last' = [op |-> "sent", id |-> id, outcome |-> outcome]
    /\ UNCHANGED requests
    /\ UNCHANGED <<dashboardVars, queryVars>>

\* filter.onerror
OnError(id) ==
    /\ filters[id].state = "open"
    /\ filters' = [filters EXCEPT ![id].state = "disconnected"]
    /\ logged' = logged \cup {[message |-> "Filter error:", id |-> id]}
    /\ last' = [op |-> "error", id |-> id]
    /\ UNCHANGED requests
    /\ UNCHANGED <<dashboardVars, queryVars>>

NextExtension ==
    \/ \E id \in RequestIds, threw \in BOOLEAN : OnBeforeRequest(id, threw)
    \/ \E id \in RequestIds, data \in Chunks : OnData(id, data)
    \/ \E id \in RequestIds, now \in Times : OnStop(id, now)
    \/ \E id \in RequestIds, outcome \in SendOutcomes : SendCompletes(id, outcome)
    \/ \E id \in RequestIds : OnError(id)

SpecExtension == Init /\ [][NextExtension]_vars

-----------------------------------------------------------------------------
(* Properties *)

TimestampsOf(rs) == [i \in 1..Len(rs) |-> rs[i].timestamp]

Occurrences(rs, r) == Cardinality({i \in 1..Len(rs) : rs[i] = r})

SameReadings(a, b) ==
    \A r \in ReadingValues : Occurrences(a, r) = Occurrences(b, r)

AscendingByTimestamp(rs) ==
    \A i, j \in 1..Len(rs) : i < j => rs[i].timestamp <= rs[j].timestamp

PollSucceeded == last.op = "fetchOk"
PollFailed == last.op = "fetchFail"
PointerHandled == last.op \in {"mouseDown", "mouseMove"}

\* C1: at every moment at most one /readings fetch is in flight: a tick that
\* fires while a fetch is still in flight issues none.
C1_AtMostOneFetchInFlight == Len(inflight) <= 1

\* C2: after a successful poll with no manual selection the reading list is
\* exactly the fetched readings in ascending order of timestamp, and if it is
\* not empty the current reading is its last one, with the greatest timestamp;
\* the response [100, 300, 200] gives [100, 200, 300] and the current reading 300.
C2_PollStoresSortedResponse ==
    (PollSucceeded /\ selectedTime = Null) =>
        /\ SameReadings(readings, last.data)
        /\ AscendingByTimestamp(readings)
        /\ Len(readings) > 0 =>
              /\ currentReading = readings[Len(readings)]
              /\ \A i \in 1..Len(readings) :
                    readings[i].timestamp <= currentReading.timestamp
        /\ TimestampsOf(last.data) = <<100, 300, 200>> =>
              /\ TimestampsOf(readings) = <<100, 200, 300>>
              /\ currentReading.timestamp = 300

C2_Witness ==
    /\ PollSucceeded
    /\ selectedTime = Null
    /\ TimestampsOf(last.data) = <<100, 300, 200>>
    /\ TimestampsOf(readings) = <<100, 200, 300>>
    /\ currentReading.timestamp = 300

\* C3: a successful poll that arrives while the scrubber has a selected time
\* leaves the current reading the one selected through the scrubber (stated
\* here for the polls whose response still holds that reading).
C3_SelectionSurvivesPoll ==
    [][(/\ selectedTime # Null
        /\ last'.op = "fetchOk"
        /\ \E i \in 1..Len(readings') : readings'[i] = currentReading) =>
          currentReading' = currentReading]_vars

C5_PollingGoesOnAfterCompletion ==
    (PollSucceeded \/ PollFailed) => (interval /\ ENABLED Tick)

C5_Witness ==
    /\ PollFailed
    /\ inflight = <<>>
    /\ interval

\* C8: after a scrub over a reading list that is not empty, the current reading
\* is one of the list that no other is closer to the selected time than, and of
\* those equally close it has the earliest timestamp.
C8_ScrubSelectsNearestReading ==
    (PointerHandled /\ last.emitted # <<>> /\ Len(readings) > 0) =>
        LET target == last.emitted[1]
        IN  /\ \E i \in 1..Len(readings) : readings[i] = currentReading
            /\ \A i \in 1..Len(readings) :
                  /\ Abs(currentReading.timestamp - target)
                        <= Abs(readings[i].timestamp - target)
                  /\ Abs(currentReading.timestamp - target)
                        = Abs(readings[i].timestamp - target)
                     => currentReading.timestamp <= readings[i].timestamp

\* A scrub to 150, as far from the reading of 100 as from the reading of 200
C8_Witness ==
    /\ PointerHandled
    /\ last.emitted = <<150>>
    /\ TimestampsOf(readings) = <<100, 200>>
    /\ currentReading.timestamp = 100

\* The time a prop of the scrubber stands for, if it stands for one
HasTime(v) == v.js = "number" \/ (v.js = "string" /\ DateParse(v.s) # NaN)
PropTime(v) == DateGetTime(v).n

Degenerate ==
    \/ startTime = Null
    \/ estimatedEndTime = Null
    \/ /\ HasTime(startTime)
       /\ HasTime(estimatedEndTime)
       /\ PropTime(estimatedEndTime) <= PropTime(startTime)

\* A pointer event on the track of a scrubber with start before end has led to
\* a call of onScrubChange
ScrubEmitted ==
    /\ PointerHandled
    /\ last.emitted # <<>>
    /\ HasTime(startTime)
    /\ HasTime(estimatedEndTime)
    /\ PropTime(estimatedEndTime) > PropTime(startTime)
    /\ last.clientX \in TrackLeft..(TrackLeft + TrackWidth)

\* C6 as stated: at the drag position p = (clientX - rect.left) / rect.width the
\* emitted time equals start + p * (estimated_end - start).
C6_EmittedTimeIsExact ==
    ScrubEmitted =>
        TrackWidth * (last.emitted[1] - PropTime(startTime))
            = (last.clientX - TrackLeft)
                * (PropTime(estimatedEndTime) - PropTime(startTime))

\* C6, amended: the emitted time is start + p * (estimated_end - start) with the
\* fraction of a millisecond dropped, so never above that value and less than a
\* millisecond below it; position 0 emits start and position 1 estimated_end.
C6_EmittedTimeIsTruncated ==
    ScrubEmitted =>
        LET exactTimesWidth ==
                (last.clientX - TrackLeft)
                    * (PropTime(estimatedEndTime) - PropTime(startTime))
            emittedTimesWidth == TrackWidth * (last.emitted[1] - PropTime(startTime))
        IN  /\ emittedTimesWidth <= exactTimesWidth
            /\ exactTimesWidth < emittedTimesWidth + TrackWidth
            /\ last.clientX = TrackLeft => last.emitted[1] = PropTime(startTime)
            /\ last.clientX = TrackLeft + TrackWidth
                  => last.emitted[1] = PropTime(estimatedEndTime)

\* A drag to the middle of a track from 100 to 305: 202.5 exactly, 202 emitted
C6_Witness ==
    /\ ScrubEmitted
    /\ last.op = "mouseMove"
    /\ startTime = Num(100)
    /\ estimatedEndTime = Num(305)
    /\ last.clientX = TrackLeft + 1
    /\ last.emitted = <<202>>

\* C7: while start or estimated_end is absent, or estimated_end <= start, the
\* scrubber renders no track and no mouse down or mouse move, of a drag begun
\* earlier either, leads to a call of onScrubChange.
C7_DegenerateScrubberIsInert ==
    Degenerate =>
        /\ ~scrubberRef
        /\ PointerHandled => last.emitted = <<>>

\* A drag begun on a valid scrubber goes on after the props have put the end
\* before the start
C7_Witness ==
    /\ last.op = "mouseMove"
    /\ isDragging
    /\ HasTime(startTime)
    /\ HasTime(estimatedEndTime)
    /\ PropTime(estimatedEndTime) < PropTime(startTime)
    /\ last.emitted = <<>>

\* C9: a call of calculateWindComponent returns wind_speed * cos(wind_direction -
\* heading), of a magnitude no greater than the wind speed; a positive value is
\* shown as tailwind and a negative one as headwind; wind_speed 20 with
\* wind_direction 90 and true_heading 90 gives 20, a tailwind.
C9_WindComponent ==
    \A k \in 1..Len(windCalls) :
        LET call == windCalls[k]
            value == call.result.n
        IN  /\ value = call.wind_speed.n
                         * CosMilli(call.wind_direction.n - call.true_heading.n)
            /\ Abs(value) <= 1000 * call.wind_speed.n
            /\ value > 0 => rows.windEffect.word = "tailwind"
            /\ value < 0 => rows.windEffect.word = "headwind"
            /\ value # 0 => 100 * rows.windEffect.tenths \in (Abs(value) - 50)..(Abs(value) + 50)
            /\ (call.wind_speed = Num(20) /\ call.wind_direction = Num(90)
                    /\ call.true_heading = Num(90))
                  => /\ value = 20000
                     /\ rows.windEffect = [tenths |-> 200, unit |-> "km/h",
                                           word |-> "tailwind"]

C9_Witness ==
    /\ Len(windCalls) = 1
    /\ shown = [AbsentReading EXCEPT !.true_heading = Num(90),
                                      !.wind_direction = Num(90),
                                      !.wind_speed = Num(20)]
    /\ rows.windEffect.word = "tailwind"

\* C10: for a reading that lacks true_heading, wind_direction or wind_speed
\* calculateWindComponent is not called and the wind effect is shown as
\* "Unknown", not as a number.
C10_NoWindComponentWithoutInputs ==
    (/\ shown # Null
     /\ \/ shown.true_heading = Null
        \/ shown.wind_direction = Null
        \/ shown.wind_speed = Null) =>
        /\ windCalls = <<>>
        /\ rows.windEffect = Str("Unknown")

C10_Witness ==
    /\ shown # Null
    /\ shown.true_heading = Null
    /\ shown.wind_direction = Num(90)
    /\ shown.wind_speed = Num(20)
    /\ rows.windEffect = Str("Unknown")

\* The phase code the "Flight phase" row is made from
PhaseCodeOf(r) == OrElse(r.state, r.flight_phase)

\* The labels of the phase codes, as stated
PhaseLabelOf(code) ==
    CASE code = "1" -> "Pre-flight"
      [] code = "2" -> "Taxi"
      [] code = "3" -> "Take-off"
      [] code = "4" -> "Initial Climb"
      [] code = "5" -> "En Route"
      [] code = "6" -> "Approach"
      [] code = "7" -> "Landing"
      [] code = "8" -> "Post-flight"
      [] OTHER -> code

\* C11: the "Flight phase" row of a reading with a phase code shows the label of
\* the code for the codes '1' to '8' and the code itself, unchanged, for every
\* other code.
C11_PhaseLabelOrCodeItself ==
    (shown # Null /\ Truthy(PhaseCodeOf(shown))) =>
        rows.flightPhase = Str(PhaseLabelOf(PhaseCodeOf(shown).s))

Absent(v) == v = Null \/ v = Str("")

\* The field each row of a single field shows
RowField ==
    [flightNumber |-> "flight_number", aircraft |-> "aircraft_type",
     timeInAir |-> "total_flight_time_minutes", latitude |-> "latitude",
     longitude |-> "longitude", altitude |-> "altitude",
     trueHeading |-> "true_heading", groundSpeed |-> "ground_speed",
     airTemp |-> "outside_air_temperature",
     distFromOrigin |-> "distance_from_origin",
     distTraveled |-> "distance_traveled",
     distToDest |-> "distance_to_destination",
     timeToDest |-> "time_to_destination_minutes",
     estArrival |-> "estimated_arrival_time",
     scheduledDeparture |-> "scheduled_departure_time",
     weightOnWheels |-> "weight_on_wheels", doorsClosed |-> "all_doors_closed",
     decompression |-> "decompression"]

\* C12: every row whose field is absent (null, undefined or empty) shows
\* "Unknown", "Time in air" with an absent total_flight_time_minutes too; a row
\* made from several fields shows "Unknown" when it lacks one it needs.
C12_AbsentFieldShowsUnknown ==
    shown # Null =>
        /\ \A row \in DOMAIN RowField :
              Absent(shown[RowField[row]]) => rows[row] = Str("Unknown")
        /\ (Absent(shown.departure_airport) \/ Absent(shown.destination_airport))
              => rows.route = Str("Unknown")
        /\ (Absent(shown.wind_speed) \/ Absent(shown.wind_direction))
              => rows.wind = Str("Unknown")
        /\ (Absent(shown.state) /\ Absent(shown.flight_phase))
              => rows.flightPhase = Str("Unknown")

QueryDone == last.op = "queryDone"

\* C13: every query that was submitted and has completed has ended in one of
\* two outcomes: a 200 has stored the row array as results and no error, and
\* any other status or a failure of the request has stored an error message that
\* the banner shows (the text of the server's error when it sent one) and no
\* results; either way the console can be used again: it is not loading, and
\* Execute submits the query in the box unless that is blank.
C13_QueryEndsInOneOutcome ==
    QueryDone =>
        LET resp == last.response
        IN  /\ IF resp.kind = "response" /\ resp.ok
               THEN results = resp.data /\ error = Null
               ELSE /\ results = Null
                    /\ error # Null
                    /\ Truthy(error)
                    /\ (resp.kind = "response" /\ Truthy(resp.data.error))
                          => error = resp.data.error
            /\ ~loading
            /\ pending = <<>>
            /\ ~Blank(query) => ENABLED SubmitClick

\* A query the server answered with status 400 and an error text
C13_Witness ==
    /\ QueryDone
    /\ last.response.kind = "response"
    /\ ~last.response.ok
    /\ error = Str("no such table: reading")
    /\ results = Null
    /\ ~Blank(query)

\* C14: the body of every request sent to POST /record has, at its top level,
\* content, which is the captured response text as a string, and timestamp,
\* which is the time of the capture in epoch milliseconds.
C14_RecordBodyHasContentAndTimestamp ==
    last.op = "stop" =>
        LET body == requests[Len(requests)].body
        IN  /\ DOMAIN body = {"content", "timestamp"}
            /\ body.content = last.text
            /\ body.timestamp = last.now

SendFailed == last.op = "sent" /\ last.outcome # "ok"

\* C15: when the sending of a capture has failed, the error has been caught and
\* logged and the filter of that response is disconnected all the same; the
\* listener goes on: a request not seen yet still gets its filter, and a
\* response still being read is still sent when it ends.
C15_SendFailureIsSkipped ==
    SendFailed =>
        /\ filters[last.id].state = "disconnected"
        /\ SendFailureLogged(last.id) \subseteq logged
        /\ \A id \in RequestIds :
              /\ filters[id].state = "none" => ENABLED OnBeforeRequest(id, FALSE)
              /\ filters[id].state = "open" => \A now \in Times : ENABLED OnStop(id, now)

\* The sending for r1 has failed, and the response of r2, which began after
\* that, has been captured and sent
C15_Witness ==
    /\ SendFailureLogged("r1") \subseteq logged
    /\ filters["r1"].state = "disconnected"
    /\ last.op = "stop"
    /\ last.id = "r2"
    /\ Len(requests) = 2
    /\ requests[2].body.content.raw = filters["r2"].responseText
    /\ filters["r2"].arrived # <<>>

\* C16: the extension only reads: the chunks written on to the page are the
\* chunks that arrived, each as it came and in the order of arrival, and every
\* request the extension issues is a POST to the local recording API.
C16_PassiveReadOnly ==
    /\ \A id \in RequestIds : filters[id].written = filters[id].arrived
    /\ \A k \in 1..Len(requests) :
          /\ requests[k].method = "POST"
          /\ requests[k].url = "http://127.0.0.1:1337/record"

\* Two chunks that split a character have been written through and the text
\* sent to the API
C16_Witness ==
    /\ \E id \in RequestIds :
          /\ filters[id].arrived = <<(<<"hi">>), (<<"lo">>)>>
          /\ filters[id].written = <<(<<"hi">>), (<<"lo">>)>>
          /\ filters[id].state = "disconnected"
    /\ Len(requests) > 0

\* C17: wherever the pointer is, on the track or off either end of it, a time
\* handed to onScrubChange lies between start and estimated_end, both included,
\* and the progress of the scrubber is always between 0 and 100.
C17_ScrubIsClamped ==
    /\ progress \in 0..100
    /\ (PointerHandled /\ last.emitted # <<>>) =>
          /\ HasTime(startTime)
          /\ HasTime(estimatedEndTime)
          /\ PropTime(startTime) <= last.emitted[1]
          /\ last.emitted[1] <= PropTime(estimatedEndTime)

\* A drag that has left the track at its right end: the end time is emitted
C17_Witness ==
    /\ last.op = "mouseMove"
    /\ last.clientX = TrackLeft + TrackWidth + 1
    /\ startTime = Num(100)
    /\ estimatedEndTime = Num(305)
    /\ last.emitted = <<305>>
    /\ progress = 100

\* The readings of rs that have the timestamp t, in their order in rs
WithTimestamp(rs, t) ==
    LET At(r) == r.timestamp = t
    IN  SelectSeq(rs, At)

\* C18: the list a successful poll stores holds every reading of the response
\* as often as the response does, readings that are alike in every field too,
\* and the readings of one timestamp are in it in the order of the response.
C18_SortIsStablePermutation ==
    PollSucceeded =>
        /\ Len(readings) = Len(last.data)
        /\ \A r \in TiedReadingValues :
              Occurrences(readings, r) = Occurrences(last.data, r)
        /\ \A t \in {r.timestamp : r \in TiedReadingValues} :
              WithTimestamp(readings, t) = WithTimestamp(last.data, t)

\* Two different readings of timestamp 100 around one of 200
C18_Witness ==
    /\ PollSucceeded
    /\ last.data = <<Reading(100, Str("1970-01-01T00:00:00.350Z")), Reading(200, Null),
                     Reading(100, Null)>>
    /\ readings = <<Reading(100, Str("1970-01-01T00:00:00.350Z")), Reading(100, Null),
                    Reading(200, Null)>>

\* C19: once the map is unmounted no fetch is issued any more, by no tick of the
\* timer, and the fetches that were in flight at the unmounting complete
\* without a change to the readings or the current reading.
C19_NoPollingAfterTeardown ==
    [][lifecycle = "unmounted" =>
          /\ Len(inflight') <= Len(inflight)
          /\ ~interval'
          /\ UNCHANGED <<readings, currentReading>>]_vars

\* A fetch in flight at the unmounting has completed with readings other than
\* the ones held
C19_Witness ==
    /\ lifecycle = "unmounted"
    /\ PollSucceeded
    /\ Len(last.data) > 0
    /\ Len(readings) > 0
    /\ SortByTimestamp(last.data) # readings
    /\ currentReading # last.data[Len(last.data)]

\* C20: loading is true exactly while a request of the query console is
\* outstanding, so it is cleared when the request ends, well or not; a submit
\* clears the results and the error of the query before; results and error are
\* never both set.
C20_LoadingTracksRequest ==
    /\ loading <=> pending # <<>>
    /\ QueryDone => ~loading
    /\ last.op = "submit" => (loading /\ results = Null /\ error = Null)
    /\ ~(results # Null /\ error # Null)

\* A query submitted after one that failed: the error is gone while it runs
C20_Witness ==
    /\ last.op = "submit"
    /\ last.error # Null
    /\ loading
    /\ Len(pending) = 1
    /\ error = Null

\* C21: at most one query is in flight: while loading is true neither Execute
\* nor Cmd/Ctrl+Enter starts a request, and neither does while the text of the
\* query is empty or white space only, so that no request carries such a text.
C21_OneQueryInFlight ==
    /\ Len(pending) <= 1
    /\ loading => (~ENABLED SubmitClick /\ ~ENABLED SubmitKeyDown)
    /\ Blank(query) => (~ENABLED SubmitClick /\ ~ENABLED SubmitKeyDown)
    /\ \A k \in 1..Len(pending) : ~Blank(pending[k].body.query)

\* A query is running and the box holds another text that is not blank
C21_Witness ==
    /\ loading
    /\ Len(pending) = 1
    /\ last.op = "setQuery"
    /\ ~Blank(query)
    /\ query # pending[1].body.query

\* C22: after any polls, those answered with an empty list too, and any scrubs,
\* a current reading that is not null has the timestamp of a reading of the
\* reading list.
C22_CurrentReadingInList ==
    currentReading # Null =>
        \E i \in 1..Len(readings) : readings[i].timestamp = currentReading.timestamp

\* C23: the reading list never goes back to older data: a response that is
\* applied comes from a fetch issued later than the fetch whose response was
\* applied before it.
C23_NoOlderResponseApplied ==
    last.op = "fetchOk" => last.before < last.applied

\* C24: for a reading that has true_heading, wind_direction and wind_speed, all
\* three numbers, 0 among them, the "Wind effect" row shows the wind component
\* computed from them and not "Unknown".
C24_WindEffectOfPresentInputs ==
    (/\ shown # Null
     /\ shown.true_heading.js = "number"
     /\ shown.wind_direction.js = "number"
     /\ shown.wind_speed.js = "number") =>
        /\ rows.windEffect # Str("Unknown")
        /\ rows.windEffect =
              WindEffectText(CalculateWindComponent(shown.true_heading,
                                                    shown.wind_direction,
                                                    shown.wind_speed))

\* C25: a scrub, a pointer event that leads to a call of onScrubChange, changes
\* the selected time and the current reading only: the reading list, and the
\* start and estimated end times handed to the scrubber, are after it what they
\* were before.
C25_ScrubKeepsTimeRange ==
    [][(last'.op \in {"mouseDown", "mouseMove"} /\ last'.emitted # <<>>) =>
          /\ readings' = readings
          /\ startTime' = startTime
          /\ estimatedEndTime' = estimatedEndTime]_vars

====
